---- MODULE Spec2Model ----
(***************************************************************************)
(* Model of import_jira_csv_to_plane.py: the import of a Jira CSV export   *)
(* into a Plane project through Plane's REST API.                          *)
(*                                                                         *)
(* A text is a sequence of one-character strings, so that strip(),         *)
(* lower(), replace() and split() are computed as Python computes them.    *)
(* Python's None is the value None below; a dict is a function whose       *)
(* DOMAIN is its key set, so that an absent key differs from a null value. *)
(***************************************************************************)
EXTENDS Integers, Sequences, FiniteSets, TLC

\* ------------------------------------------------------------------------
\* Bounds of the model
\* ------------------------------------------------------------------------

\* Longest CSV (number of data rows) of a run.
MaxRows == 2

\* Most network calls the environment fails (or answers with a non-JSON
\* body) in one run.
MaxFaults == 2

\* ------------------------------------------------------------------------
\* Python values
\* ------------------------------------------------------------------------

\* None: a value no text equals (a text holds one-character strings only).
None == <<"None">>

\* The identifier None of an entity ({"id": None}); server ids are >= 1.
NoId == 0

\* bool(x) of a text-or-None value: None and "" are falsy.
Truthy(x) == x # None /\ x # <<>>

\* `a or b` of Python.
PyOr(a, b) == IF Truthy(a) THEN a ELSE b

\* dict.get(key) with the default None.
DictGet(d, k) == IF k \in DOMAIN d THEN d[k] ELSE None

\* Characters str.strip() removes.
Whitespace == {" ", "\t"}

UpperToLower ==
    [c \in {"A","B","C","D","E","F","G","H","I","J","K","L","M","N","O","P",
            "Q","R","S","T","U","V","W","X","Y","Z"} |->
        CASE c = "A" -> "a" [] c = "B" -> "b" [] c = "C" -> "c" [] c = "D" -> "d"
          [] c = "E" -> "e" [] c = "F" -> "f" [] c = "G" -> "g" [] c = "H" -> "h"
          [] c = "I" -> "i" [] c = "J" -> "j" [] c = "K" -> "k" [] c = "L" -> "l"
          [] c = "M" -> "m" [] c = "N" -> "n" [] c = "O" -> "o" [] c = "P" -> "p"
          [] c = "Q" -> "q" [] c = "R" -> "r" [] c = "S" -> "s" [] c = "T" -> "t"
          [] c = "U" -> "u" [] c = "V" -> "v" [] c = "W" -> "w" [] c = "X" -> "x"
          [] c = "Y" -> "y" [] c = "Z" -> "z"]

\* str.lower()
Lower(s) ==
    [k \in 1..Len(s) |-> IF s[k] \in DOMAIN UpperToLower THEN UpperToLower[s[k]] ELSE s[k]]

RECURSIVE LStrip(_)
LStrip(s) ==
    IF s # <<>> /\ Head(s) \in Whitespace THEN LStrip(Tail(s)) ELSE s

RECURSIVE RStrip(_)
RStrip(s) ==
    IF s # <<>> /\ s[Len(s)] \in Whitespace THEN RStrip(SubSeq(s, 1, Len(s) - 1)) ELSE s

\* str.strip()
Strip(s) == RStrip(LStrip(s))

\* NormKey without lower(): keys compared case-sensitively.
NormKey_NoLower(name) == Strip(PyOr(name, <<>>))

\* The cache key of a name: (name or "").strip().lower()
NormKey(name) == Lower(Strip(PyOr(name, <<>>)))

\* str.replace(old, new) for one-character old and new.
Replace(s, old, new) == [k \in 1..Len(s) |-> IF s[k] = old THEN new ELSE s[k]]

\* str.split(sep) for a one-character sep: the pieces between separators,
\* empty pieces included.
RECURSIVE SplitFrom(_, _, _)
SplitFrom(s, sep, cur) ==
    IF s = <<>> THEN <<cur>>
    ELSE IF Head(s) = sep THEN <<cur>> \o SplitFrom(Tail(s), sep, <<>>)
    ELSE SplitFrom(Tail(s), sep, Append(cur, Head(s)))

Split(s, sep) == SplitFrom(s, sep, <<>>)

RECURSIVE SelectTruthy(_)
SelectTruthy(parts) ==
    IF parts = <<>> THEN <<>>
    ELSE IF Head(parts) # <<>> THEN <<Head(parts)>> \o SelectTruthy(Tail(parts))
    ELSE SelectTruthy(Tail(parts))

\* ------------------------------------------------------------------------
\* CSV parsing and mapping
\* ------------------------------------------------------------------------

DEFAULT_LABEL_SEP == ";"

DEFAULT_PRIORITY_MAP ==
    ( <<"H","i","g","h","e","s","t">> :> <<"u","r","g","e","n","t">> ) @@
    ( <<"H","i","g","h">>             :> <<"h","i","g","h">> ) @@
    ( <<"M","e","d","i","u","m">>     :> <<"m","e","d","i","u","m">> ) @@
    ( <<"L","o","w">>                 :> <<"l","o","w">> ) @@
    ( <<"L","o","w","e","s","t">>     :> <<"l","o","w">> )

DEFAULT_STATUS_TO_STATE ==
    ( <<"T","o"," ","D","o">> :> <<"B","a","c","k","l","o","g">> ) @@
    ( <<"S","e","l","e","c","t","e","d"," ","f","o","r"," ",
        "D","e","v","e","l","o","p","m","e","n","t">>
                              :> <<"U","n","s","t","a","r","t","e","d">> ) @@
    ( <<"I","n"," ","P","r","o","g","r","e","s","s">>
                              :> <<"S","t","a","r","t","e","d">> ) @@
    ( <<"I","n"," ","R","e","v","i","e","w">>
                              :> <<"S","t","a","r","t","e","d">> ) @@
    ( <<"D","o","n","e">>     :> <<"C","o","m","p","l","e","t","e","d">> ) @@
    ( <<"C","l","o","s","e","d">>
                              :> <<"C","o","m","p","l","e","t","e","d">> )

map_priority(jira_priority) ==
    IF ~Truthy(jira_priority) THEN None
    ELSE DictGet(DEFAULT_PRIORITY_MAP, Strip(jira_priority))

map_state(jira_status) ==
    IF ~Truthy(jira_status) THEN None
    ELSE DictGet(DEFAULT_STATUS_TO_STATE, Strip(jira_status))

\* parse_labels that splits at commas only.
parse_labels_CommaOnly(raw, sep) ==
    IF ~Truthy(raw) THEN <<>>
    ELSE LET pieces == Split(raw, ",")
             parts  == [k \in 1..Len(pieces) |-> Strip(pieces[k])]
         IN  SelectTruthy(parts)

parse_labels(raw, sep) ==
    IF ~Truthy(raw) THEN <<>>
    ELSE LET pieces == Split(Replace(raw, ",", sep), sep)
             parts  == [k \in 1..Len(pieces) |-> Strip(pieces[k])]
         IN  SelectTruthy(parts)

\* ------------------------------------------------------------------------
\* State-group inference
\* ------------------------------------------------------------------------

\* infer_state_group without strip().lower().
infer_state_group_Raw(state_name) ==
    LET name == PyOr(state_name, <<>>) IN
    IF name \in { <<"b","a","c","k","l","o","g">>, <<"t","o"," ","d","o">>,
                  <<"t","o","d","o">>, <<"u","n","s","t","a","r","t","e","d">>,
                  <<"s","e","l","e","c","t","e","d"," ","f","o","r"," ",
                    "d","e","v","e","l","o","p","m","e","n","t">> }
        THEN "backlog"
    ELSE IF name \in { <<"i","n"," ","p","r","o","g","r","e","s","s">>,
                       <<"s","t","a","r","t","e","d">>,
                       <<"i","n"," ","r","e","v","i","e","w">>, <<"d","o","i","n","g">> }
        THEN "started"
    ELSE IF name \in { <<"d","o","n","e">>, <<"c","o","m","p","l","e","t","e","d">>,
                       <<"c","l","o","s","e","d">>, <<"r","e","s","o","l","v","e","d">> }
        THEN "completed"
    ELSE IF name \in { <<"c","a","n","c","e","l","l","e","d">>,
                       <<"c","a","n","c","e","l","e","d">>,
                       <<"w","o","n","t","f","i","x">>,
                       <<"w","o","n","'","t"," ","f","i","x">> }
        THEN "cancelled"
    ELSE "backlog"

infer_state_group(state_name) ==
    LET name == NormKey(state_name) IN
    IF name \in { <<"b","a","c","k","l","o","g">>,
                  <<"t","o"," ","d","o">>,
                  <<"t","o","d","o">>,
                  <<"u","n","s","t","a","r","t","e","d">>,
                  <<"s","e","l","e","c","t","e","d"," ","f","o","r"," ",
                    "d","e","v","e","l","o","p","m","e","n","t">> }
        THEN "backlog"
    ELSE IF name \in { <<"i","n"," ","p","r","o","g","r","e","s","s">>,
                       <<"s","t","a","r","t","e","d">>,
                       <<"i","n"," ","r","e","v","i","e","w">>,
                       <<"d","o","i","n","g">> }
        THEN "started"
    ELSE IF name \in { <<"d","o","n","e">>,
                       <<"c","o","m","p","l","e","t","e","d">>,
                       <<"c","l","o","s","e","d">>,
                       <<"r","e","s","o","l","v","e","d">> }
        THEN "completed"
    ELSE IF name \in { <<"c","a","n","c","e","l","l","e","d">>,
                       <<"c","a","n","c","e","l","e","d">>,
                       <<"w","o","n","t","f","i","x">>,
                       <<"w","o","n","'","t"," ","f","i","x">> }
        THEN "cancelled"
    ELSE "backlog"

\* ------------------------------------------------------------------------
\* State
\* ------------------------------------------------------------------------

VARIABLES
    args,          \* the parsed command line: dry_run, offline, no_create_labels, no_create_states
    csv,           \* the input file: fieldnames (header) and rows
    want,          \* PLANE_PROJECT_ID as configured
    seed,          \* Plane: the labels and states of the project before the run
    project_id,    \* main's project_id
    headers,       \* main's local `headers`: "unbound" until line 228 assigns it
    srvProjects,   \* Plane: the workspace's project listing
    srvLabels,     \* Plane: the project's labels, in creation order
    srvStates,     \* Plane: the project's states, in creation order
    nextId,        \* Plane: the next identifier the server assigns
    faults,        \* number of calls the environment has failed so far
    label_cache,   \* main's label_cache
    state_cache,   \* main's state_cache
    created_count, \* main's counters
    skipped,
    failures,
    i,             \* ordinal of the row being processed (enumerate(reader, start=1))
    pc,            \* position in main
    payload,       \* the row's payload under construction
    labels,        \* the row's parsed labels
    li,            \* index in labels of the label the loop is at
    label_ids,     \* the row's label_ids
    target,        \* the name passed to ensure_state / ensure_label
    obj,           \* state_obj / lbl_obj returned by the ensure in progress
    calls,         \* history: every HTTP request issued, with its outcome
    resolutions,   \* history: every state_obj / lbl_obj the row loop obtained
    payloads       \* history: every payload submitted or printed as simulated

vars == <<args, csv, want, seed, project_id, headers, srvProjects, srvLabels, srvStates,
          nextId, faults, label_cache, state_cache, created_count, skipped,
          failures, i, pc, payload, labels, li, label_ids, target, obj, calls,
          resolutions, payloads>>

\* ------------------------------------------------------------------------
\* Inputs of the model
\* ------------------------------------------------------------------------

Columns == {"Summary", "Description", "Labels", "labels", "Status", "status",
            "Priority", "priority"}

\* The row of the end-to-end scenario.
RowFixLogin ==
    [Summary |-> <<"F","i","x"," ","l","o","g","i","n">>, Description |-> <<>>,
     Labels |-> <<"a","u","t","h",";","u","r","g","e","n","t">>, labels |-> <<>>,
     Status |-> <<"I","n"," ","P","r","o","g","r","e","s","s">>, status |-> <<>>,
     Priority |-> <<"H","i","g","h">>, priority |-> <<>>]

\* A row whose Summary is whitespace only, with tags and a status.
RowBlank ==
    [Summary |-> <<" "," ">>, Description |-> <<"d">>,
     Labels |-> <<"n","e","w">>, labels |-> <<>>,
     Status |-> <<"D","o","n","e">>, status |-> <<>>,
     Priority |-> <<"L","o","w">>, priority |-> <<>>]

\* A row with an empty Summary.
RowEmpty ==
    [Summary |-> <<>>, Description |-> <<>>,
     Labels |-> <<"a","u","t","h">>, labels |-> <<>>,
     Status |-> <<"C","l","o","s","e","d">>, status |-> <<>>,
     Priority |-> <<>>, priority |-> <<>>]

\* A short CSV line: its cells are None.
RowShort ==
    [Summary |-> None, Description |-> None, Labels |-> None, labels |-> None,
     Status |-> None, status |-> None, Priority |-> None, priority |-> None]

\* A row that repeats a tag in another case, uses the lower-case column
\* names for status and priority, and has a priority outside the table.
RowRepeat ==
    [Summary |-> <<" ","A","d","d"," ","S","S","O">>, Description |-> <<"d">>,
     Labels |-> <<"A","u","t","h",","," ","a","u","t","h"," ">>, labels |-> <<>>,
     Status |-> <<>>, status |-> <<"I","n"," ","R","e","v","i","e","w"," ">>,
     Priority |-> <<>>, priority |-> <<"M","a","j","o","r">>]

\* A row with a status outside the table and the tag column in lower case.
RowTriage ==
    [Summary |-> <<"T","r","i","a","g","e">>, Description |-> <<>>,
     Labels |-> <<>>, labels |-> <<"U","R","G","E","N","T">>,
     Status |-> <<"W","o","n","t","f","i","x">>, status |-> <<>>,
     Priority |-> <<"L","o","w","e","s","t">>, priority |-> <<>>]

RowPool == {RowFixLogin, RowBlank, RowEmpty, RowShort, RowRepeat, RowTriage}

RowSeqs == UNION {[1..n -> RowPool] : n \in 0..MaxRows}

\* Headers: the full header, and one that lacks the Summary column.
HeaderPool == {Columns, Columns \ {"Summary"}}

\* The project of the workspace.
ProjectBT ==
    [id |-> <<"a","b","c","1","2","3","4","5","-","d","e","6","7">>,
     identifier |-> <<"B","T">>,
     name |-> <<"B","u","g"," ","T","r","a","c","k","e","r">>,
     slug |-> <<"b","u","g","-","t","r","a","c","k","e","r">>]

\* Configured project references: the project's id, and its display name.
WantPool == { <<"a","b","c","1","2","3","4","5","-","d","e","6","7">>,
              <<"b","u","g"," ","t","r","a","c","k","e","r"," ">> }

\* What the project holds before the run: nothing, or one tag and one state
\* whose names differ in case from the names the rows use.
SeedPool ==
    { [labels |-> <<>>, states |-> <<>>, nextId |-> 1],
      [labels |-> << [name |-> <<"U","r","g","e","n","t">>, id |-> 1] >>,
       states |-> << [name |-> <<"s","t","a","r","t","e","d">>, id |-> 2] >>,
       nextId |-> 3] }

\* ------------------------------------------------------------------------
\* Plane (the server) and the HTTP helpers
\* ------------------------------------------------------------------------

\* The ids under which the server knows a project: a request addressed to
\* anything else is answered with an error status.
ServerProjectIds == {srvProjects[k].id : k \in DOMAIN srvProjects}

\* Outcomes of get(): the parsed JSON, or RuntimeError (status >= 400, or a
\* body that is not JSON).
GetOutcomes == {"ok"} \cup (IF faults < MaxFaults THEN {"err"} ELSE {})

\* Outcomes of post(): the parsed JSON; RuntimeError on status >= 400, the
\* server having changed nothing; RuntimeError on a success status with a
\* body that is not JSON, the server having done the request.
PostOutcomes == {"ok"} \cup (IF faults < MaxFaults THEN {"err", "nonjson"} ELSE {})

\* Whether the server can answer a request addressed to project pid with r.
Answers(pid, r) == r = "ok" => pid \in ServerProjectIds

\* One entry of the request history.
Call(verb, kind, body, res) ==
    [verb |-> verb, kind |-> kind, pid |-> project_id, body |-> body,
     res |-> res, row |-> i]

\* { (item.get("name") or "").strip().lower(): item for item in data }:
\* a later item replaces an earlier one with the same key.
ListToDict(items) ==
    [k \in {NormKey(items[j].name) : j \in DOMAIN items} |->
        items[CHOOSE j \in DOMAIN items :
                /\ NormKey(items[j].name) = k
                /\ \A j2 \in DOMAIN items : j2 > j => NormKey(items[j2].name) # k]]

\* ------------------------------------------------------------------------
\* Initial state: main() is entered
\* ------------------------------------------------------------------------

Init ==
    /\ args \in [dry_run : BOOLEAN, offline : BOOLEAN,
                 no_create_labels : BOOLEAN, no_create_states : BOOLEAN]
    /\ csv \in [fieldnames : HeaderPool, rows : RowSeqs]
    /\ want \in WantPool
    /\ project_id = None
    /\ headers = "unbound"
    /\ srvProjects = <<ProjectBT>>
    /\ seed \in SeedPool
    /\ srvLabels = seed.labels
    /\ srvStates = seed.states
    /\ nextId = seed.nextId
    /\ faults = 0
    /\ label_cache = <<>>
    /\ state_cache = <<>>
    /\ created_count = 0
    /\ skipped = 0
    /\ failures = 0
    /\ i = 0
    /\ pc = "start"
    /\ payload = <<>>
    /\ labels = <<>>
    /\ li = 0
    /\ label_ids = <<>>
    /\ target = None
    /\ obj = None
    /\ calls = <<>>
    /\ resolutions = <<>>
    /\ payloads = <<>>

\* ------------------------------------------------------------------------
\* main: configuration, project resolution, cache loads, header check
\* ------------------------------------------------------------------------

\* The test of lines 272, 291 and 306 with --offline left out.
Simulate_DryOnly == args.dry_run

\* args.dry_run or args.offline
Simulate == args.dry_run \/ args.offline

\* The position after row i: the next row, or the final summary line.
AfterRow == IF i + 1 > Len(csv.rows) THEN "done" ELSE "row"

\* The placeholder {"name": name, "id": None}.
Placeholder(name) == [name |-> name, id |-> NoId]

\* Lines 217-228. project_id is read from the environment (env() strips it).
\* The call of resolve_project_id reads main's local `headers`, which is
\* assigned on line 228 only: evaluating the argument raises
\* UnboundLocalError, `except Exception` catches it, and project_id keeps
\* the configured value.
MainResolve ==
    /\ pc = "start"
    /\ project_id' = Strip(want)
    /\ IF headers = "unbound"
         THEN /\ pc' = "load_labels"
              /\ headers' = "bound"
         ELSE /\ pc' = "rp_get"
              /\ headers' = headers
    /\ UNCHANGED <<args, csv, want, seed, srvProjects, srvLabels, srvStates, nextId,
                   faults, label_cache, state_cache, created_count, skipped,
                   failures, i, payload, labels, li, label_ids, target, obj,
                   calls, resolutions, payloads>>

\* Line 231: label_cache = list_labels(...). A failed GET is not caught.
LoadLabels ==
    /\ pc = "load_labels"
    /\ \E r \in GetOutcomes :
          /\ Answers(project_id, r)
          /\ calls' = Append(calls, Call("GET", "labels", <<>>, r))
          /\ IF r = "ok"
               THEN /\ label_cache' = ListToDict(srvLabels)
                    /\ pc' = "load_states"
                    /\ faults' = faults
               ELSE /\ label_cache' = label_cache
                    /\ pc' = "raised"
                    /\ faults' = faults + 1
    /\ UNCHANGED <<args, csv, want, seed, project_id, headers, srvProjects, srvLabels,
                   srvStates, nextId, state_cache, created_count, skipped,
                   failures, i, payload, labels, li, label_ids, target, obj,
                   resolutions, payloads>>

\* Line 232: state_cache = list_states(...).
LoadStates ==
    /\ pc = "load_states"
    /\ \E r \in GetOutcomes :
          /\ Answers(project_id, r)
          /\ calls' = Append(calls, Call("GET", "states", <<>>, r))
          /\ IF r = "ok"
               THEN /\ state_cache' = ListToDict(srvStates)
                    /\ pc' = "open"
                    /\ faults' = faults
               ELSE /\ state_cache' = state_cache
                    /\ pc' = "raised"
                    /\ faults' = faults + 1
    /\ UNCHANGED <<args, csv, want, seed, project_id, headers, srvProjects, srvLabels,
                   srvStates, nextId, label_cache, created_count, skipped,
                   failures, i, payload, labels, li, label_ids, target, obj,
                   resolutions, payloads>>

\* Open without the check of the required columns.
Open_NoHeaderCheck ==
    /\ pc = "open"
    /\ created_count' = 0
    /\ skipped' = 0
    /\ failures' = 0
    /\ pc' = IF Len(csv.rows) = 0 THEN "done" ELSE "row"
    /\ i' = 1
    /\ UNCHANGED <<args, csv, want, seed, project_id, headers, srvProjects, srvLabels,
                   srvStates, nextId, faults, label_cache, state_cache, payload,
                   labels, li, label_ids, target, obj, calls, resolutions,
                   payloads>>

\* Lines 234-244: the counters start at 0; a header without the Summary
\* column ends the run with sys.exit(2).
Open ==
    /\ pc = "open"
    /\ created_count' = 0
    /\ skipped' = 0
    /\ failures' = 0
    /\ IF "Summary" \notin csv.fieldnames
         THEN /\ pc' = "exit"
              /\ i' = i
         ELSE /\ pc' = IF Len(csv.rows) = 0 THEN "done" ELSE "row"
              /\ i' = 1
    /\ UNCHANGED <<args, csv, want, seed, project_id, headers, srvProjects, srvLabels,
                   srvStates, nextId, faults, label_cache, state_cache, payload,
                   labels, li, label_ids, target, obj, calls, resolutions,
                   payloads>>

\* ------------------------------------------------------------------------
\* main: one row
\* ------------------------------------------------------------------------

\* row.get(col) of the DictReader row.
RowGet(row, col) == IF col \in csv.fieldnames THEN row[col] ELSE None

\* Line 247 without strip().
SummaryName_NoStrip(row) == PyOr(RowGet(row, "Summary"), <<>>)

\* Line 247: name = (row.get("Summary") or "").strip()
SummaryName(row) == Strip(PyOr(RowGet(row, "Summary"), <<>>))

\* One entry of the resolution history: what the row loop obtained for a
\* name, and how.
Resolution(kind, name, id, how, at) ==
    [kind |-> kind, key |-> Lower(Strip(name)), id |-> id, how |-> how,
     row |-> i, at |-> at]

\* Lines 262-266 without the tests: description and priority always set.
BasePayload_Nulls(name, description, priority) ==
    [name |-> name, description |-> description, priority |-> priority]

\* Lines 262-266: the payload before state and labels.
BasePayload(name, description, priority) ==
    ("name" :> name)
    @@ (IF description # <<>> THEN ("description" :> description) ELSE <<>>)
    @@ (IF Truthy(priority) THEN ("priority" :> priority) ELSE <<>>)

\* Lines 282-283 without the test: state_id is set, to None too.
WithStateId_Always(p, id) == ("state_id" :> id) @@ p

\* Lines 282-283: payload["state_id"] = state_obj["id"] when the id is set
\* (id is NoId for a state_obj that is None or a placeholder).
WithStateId(p, id) == IF id # NoId THEN ("state_id" :> id) @@ p ELSE p

\* Lines 301-302 without the test: the id is appended, None too.
AppendId_Always(ids, id) == Append(ids, id)

\* Lines 301-302: label_ids.append(lbl_obj["id"]) when lbl_obj has an id
\* (id is NoId for a label that is None or a placeholder).
AppendId(ids, id) == IF id # NoId THEN Append(ids, id) ELSE ids

\* Lines 269 and 288: the key looked up in a cache, name.strip().lower()
CacheKey_NoLower(name) == Strip(name)

CacheKey(name) == Lower(Strip(name))

\* Lines 303-304: payload["label_ids"] = label_ids when it is not empty.
WithLabelIds(p, ids) == IF ids # <<>> THEN ("label_ids" :> ids) @@ p ELSE p

\* Lines 246-283, up to the call of ensure_state: the Summary check, the
\* field mapping, the payload, and the state lookup in the cache.
RowBegin ==
    /\ pc = "row"
    /\ LET row         == csv.rows[i]
           name        == SummaryName(row)
           description == PyOr(RowGet(row, "Description"), <<>>)
           raw         == PyOr(PyOr(RowGet(row, "Labels"), RowGet(row, "labels")), <<>>)
           jira_status == PyOr(PyOr(RowGet(row, "Status"), RowGet(row, "status")), <<>>)
           jira_prio   == PyOr(PyOr(RowGet(row, "Priority"), RowGet(row, "priority")), <<>>)
           tsn         == map_state(jira_status)
           base        == BasePayload(name, description, map_priority(jira_prio))
           state_key   == CacheKey(tsn)
           hit         == state_key \in DOMAIN state_cache
       IN
       IF name = <<>>
         THEN \* [SKIP]
              /\ skipped' = skipped + 1
              /\ i' = i + 1
              /\ pc' = AfterRow
              /\ UNCHANGED <<payload, labels, li, label_ids, target, resolutions>>
         ELSE /\ UNCHANGED <<skipped, i>>
              /\ labels' = parse_labels(raw, DEFAULT_LABEL_SEP)
              /\ li' = 1
              /\ label_ids' = <<>>
              /\ IF ~Truthy(tsn)
                   THEN /\ payload' = base
                        /\ pc' = "labels"
                        /\ UNCHANGED <<target, resolutions>>
                   ELSE IF hit
                   THEN /\ payload' = WithStateId(base, state_cache[state_key].id)
                        /\ resolutions' = Append(resolutions,
                              Resolution("states", tsn, state_cache[state_key].id, "cache", Len(calls)))
                        /\ pc' = "labels"
                        /\ UNCHANGED target
                   ELSE IF args.no_create_states
                   THEN /\ payload' = WithStateId(base, NoId)
                        /\ resolutions' = Append(resolutions,
                              Resolution("states", tsn, NoId, "disabled", Len(calls)))
                        /\ pc' = "labels"
                        /\ UNCHANGED target
                   ELSE IF Simulate
                   THEN \* [DRY] Would create state
                        /\ payload' = WithStateId(base, Placeholder(tsn).id)
                        /\ resolutions' = Append(resolutions,
                              Resolution("states", tsn, Placeholder(tsn).id, "placeholder", Len(calls)))
                        /\ pc' = "labels"
                        /\ UNCHANGED target
                   ELSE \* ensure_state(..., target_state_name)
                        /\ payload' = base
                        /\ target' = tsn
                        /\ pc' = "es_list"
                        /\ UNCHANGED resolutions
    /\ UNCHANGED <<args, csv, want, seed, project_id, headers, srvProjects, srvLabels,
                   srvStates, nextId, faults, label_cache, state_cache,
                   created_count, failures, obj, calls, payloads>>

\* ------------------------------------------------------------------------
\* ensure_state, called on line 280, and the cache rebuild of line 281
\* ------------------------------------------------------------------------

\* The colour of the minimal state payload.
NEUTRAL_COLOR == <<"#","9","c","a","3","a","f">>

\* payload = {"name": name, "color": "#9ca3af"}
StatePayload(name) == [name |-> name, color |-> NEUTRAL_COLOR]

\* payload["group"] = infer_state_group(name)
StateRetryPayload(name) ==
    [name |-> name, color |-> NEUTRAL_COLOR, group |-> infer_state_group(name)]

\* Lines 113-116: the fresh listing; a listed state is returned as it is.
ES_List ==
    /\ pc = "es_list"
    /\ \E r \in GetOutcomes :
          /\ Answers(project_id, r)
          /\ calls' = Append(calls, Call("GET", "states", <<>>, r))
          /\ IF r = "ok"
               THEN LET existing == ListToDict(srvStates)
                        key      == NormKey(target)
                    IN  /\ faults' = faults
                        /\ IF key \in DOMAIN existing
                             THEN /\ obj' = existing[key]
                                  /\ pc' = "es_refresh"
                             ELSE /\ obj' = obj
                                  /\ pc' = "es_post1"
               ELSE /\ faults' = faults + 1
                    /\ obj' = obj
                    /\ pc' = "raised"
    /\ UNCHANGED <<args, csv, want, seed, project_id, headers, srvProjects, srvLabels,
                   srvStates, nextId, label_cache, state_cache, created_count,
                   skipped, failures, i, payload, labels, li, label_ids, target,
                   resolutions, payloads>>

\* Lines 119-122: the first POST, with the minimal payload. Any exception
\* leads to the retry.
ES_Post1 ==
    /\ pc = "es_post1"
    /\ \E r \in PostOutcomes :
          /\ Answers(project_id, r)
          /\ calls' = Append(calls, Call("POST", "states", StatePayload(target), r))
          /\ IF r \in {"ok", "nonjson"}
               THEN /\ srvStates' = Append(srvStates, [name |-> target, id |-> nextId])
                    /\ nextId' = nextId + 1
               ELSE UNCHANGED <<srvStates, nextId>>
          /\ IF r = "ok"
               THEN /\ obj' = [name |-> target, id |-> nextId]
                    /\ pc' = "es_refresh"
                    /\ faults' = faults
               ELSE /\ obj' = obj
                    /\ pc' = "es_post2"
                    /\ faults' = faults + 1
    /\ UNCHANGED <<args, csv, want, seed, project_id, headers, srvProjects, srvLabels,
                   label_cache, state_cache, created_count, skipped, failures, i,
                   payload, labels, li, label_ids, target, resolutions, payloads>>

\* Lines 123-129: the retry with the inferred group. Its exception is
\* raised again and nothing in main catches it.
ES_Post2 ==
    /\ pc = "es_post2"
    /\ \E r \in PostOutcomes :
          /\ Answers(project_id, r)
          /\ calls' = Append(calls, Call("POST", "states", StateRetryPayload(target), r))
          /\ IF r \in {"ok", "nonjson"}
               THEN /\ srvStates' = Append(srvStates, [name |-> target, id |-> nextId])
                    /\ nextId' = nextId + 1
               ELSE UNCHANGED <<srvStates, nextId>>
          /\ IF r = "ok"
               THEN /\ obj' = [name |-> target, id |-> nextId]
                    /\ pc' = "es_refresh"
                    /\ faults' = faults
               ELSE /\ obj' = obj
                    /\ pc' = "raised"
                    /\ faults' = faults + 1
    /\ UNCHANGED <<args, csv, want, seed, project_id, headers, srvProjects, srvLabels,
                   label_cache, state_cache, created_count, skipped, failures, i,
                   payload, labels, li, label_ids, target, resolutions, payloads>>

\* Lines 281-283: state_cache is rebuilt from a new listing, then the id of
\* the state ensure_state returned goes into the payload.
ES_Refresh ==
    /\ pc = "es_refresh"
    /\ \E r \in GetOutcomes :
          /\ Answers(project_id, r)
          /\ calls' = Append(calls, Call("GET", "states", <<>>, r))
          /\ IF r = "ok"
               THEN /\ state_cache' = ListToDict(srvStates)
                    /\ payload' = WithStateId(payload, obj.id)
                    /\ resolutions' = Append(resolutions,
                          Resolution("states", target, obj.id, "ensure", Len(calls')))
                    /\ pc' = "labels"
                    /\ faults' = faults
               ELSE /\ UNCHANGED <<state_cache, payload, resolutions>>
                    /\ pc' = "raised"
                    /\ faults' = faults + 1
    /\ UNCHANGED <<args, csv, want, seed, project_id, headers, srvProjects, srvLabels,
                   srvStates, nextId, label_cache, created_count, skipped,
                   failures, i, labels, li, label_ids, target, obj, payloads>>

\* ------------------------------------------------------------------------
\* The label loop (lines 286-304), ensure_label, and the submission
\* ------------------------------------------------------------------------

\* Lines 287-302 for labels[li], up to the call of ensure_label.
LabelStep ==
    /\ pc = "labels"
    /\ li <= Len(labels)
    /\ LET lbl == labels[li]
           key == CacheKey(lbl)
       IN  IF key \in DOMAIN label_cache
             THEN /\ label_ids' = AppendId(label_ids, label_cache[key].id)
                  /\ resolutions' = Append(resolutions,
                        Resolution("labels", lbl, label_cache[key].id, "cache", Len(calls)))
                  /\ li' = li + 1
                  /\ UNCHANGED <<pc, target>>
             ELSE IF args.no_create_labels
             THEN /\ resolutions' = Append(resolutions,
                        Resolution("labels", lbl, NoId, "disabled", Len(calls)))
                  /\ label_ids' = AppendId(label_ids, NoId)
                  /\ li' = li + 1
                  /\ UNCHANGED <<pc, target>>
             ELSE IF Simulate
             THEN \* [DRY] Would create label
                  /\ label_ids' = AppendId(label_ids, Placeholder(lbl).id)
                  /\ resolutions' = Append(resolutions,
                        Resolution("labels", lbl, Placeholder(lbl).id, "placeholder", Len(calls)))
                  /\ li' = li + 1
                  /\ UNCHANGED <<pc, target>>
             ELSE \* ensure_label(..., lbl)
                  /\ target' = lbl
                  /\ pc' = "el_list"
                  /\ UNCHANGED <<li, label_ids, resolutions>>
    /\ UNCHANGED <<args, csv, want, seed, project_id, headers, srvProjects, srvLabels,
                   srvStates, nextId, faults, label_cache, state_cache,
                   created_count, skipped, failures, i, payload, labels, obj,
                   calls, payloads>>

\* ensure_label without the lookup in the fresh listing.
EL_List_NoLookup ==
    /\ pc = "el_list"
    /\ \E r \in GetOutcomes :
          /\ Answers(project_id, r)
          /\ calls' = Append(calls, Call("GET", "labels", <<>>, r))
          /\ IF r = "ok"
               THEN /\ faults' = faults
                    /\ obj' = obj
                    /\ pc' = "el_post"
               ELSE /\ faults' = faults + 1
                    /\ obj' = obj
                    /\ pc' = "raised"
    /\ UNCHANGED <<args, csv, want, seed, project_id, headers, srvProjects, srvLabels,
                   srvStates, nextId, label_cache, state_cache, created_count,
                   skipped, failures, i, payload, labels, li, label_ids, target,
                   resolutions, payloads>>

\* Lines 84-87: the fresh listing of ensure_label.
EL_List ==
    /\ pc = "el_list"
    /\ \E r \in GetOutcomes :
          /\ Answers(project_id, r)
          /\ calls' = Append(calls, Call("GET", "labels", <<>>, r))
          /\ IF r = "ok"
               THEN LET existing == ListToDict(srvLabels)
                        key      == NormKey(target)
                    IN  /\ faults' = faults
                        /\ IF key \in DOMAIN existing
                             THEN /\ obj' = existing[key]
                                  /\ pc' = "el_refresh"
                             ELSE /\ obj' = obj
                                  /\ pc' = "el_post"
               ELSE /\ faults' = faults + 1
                    /\ obj' = obj
                    /\ pc' = "raised"
    /\ UNCHANGED <<args, csv, want, seed, project_id, headers, srvProjects, srvLabels,
                   srvStates, nextId, label_cache, state_cache, created_count,
                   skipped, failures, i, payload, labels, li, label_ids, target,
                   resolutions, payloads>>

\* Lines 89-91: the POST of ensure_label; its exception is not caught.
EL_Post ==
    /\ pc = "el_post"
    /\ \E r \in PostOutcomes :
          /\ Answers(project_id, r)
          /\ calls' = Append(calls, Call("POST", "labels", [name |-> target], r))
          /\ IF r \in {"ok", "nonjson"}
               THEN /\ srvLabels' = Append(srvLabels, [name |-> target, id |-> nextId])
                    /\ nextId' = nextId + 1
               ELSE UNCHANGED <<srvLabels, nextId>>
          /\ IF r = "ok"
               THEN /\ obj' = [name |-> target, id |-> nextId]
                    /\ pc' = "el_refresh"
                    /\ faults' = faults
               ELSE /\ obj' = obj
                    /\ pc' = "raised"
                    /\ faults' = faults + 1
    /\ UNCHANGED <<args, csv, want, seed, project_id, headers, srvProjects, srvStates,
                   label_cache, state_cache, created_count, skipped, failures, i,
                   payload, labels, li, label_ids, target, resolutions, payloads>>

\* EL_Refresh that fetches the listing and keeps the old label_cache.
EL_Refresh_NoRebuild ==
    /\ pc = "el_refresh"
    /\ \E r \in GetOutcomes :
          /\ Answers(project_id, r)
          /\ calls' = Append(calls, Call("GET", "labels", <<>>, r))
          /\ IF r = "ok"
               THEN /\ label_cache' = label_cache
                    /\ label_ids' = AppendId(label_ids, obj.id)
                    /\ resolutions' = Append(resolutions,
                          Resolution("labels", target, obj.id, "ensure", Len(calls')))
                    /\ li' = li + 1
                    /\ pc' = "labels"
                    /\ faults' = faults
               ELSE /\ UNCHANGED <<label_cache, label_ids, resolutions, li>>
                    /\ pc' = "raised"
                    /\ faults' = faults + 1
    /\ UNCHANGED <<args, csv, want, seed, project_id, headers, srvProjects, srvLabels,
                   srvStates, nextId, state_cache, created_count, skipped,
                   failures, i, payload, labels, target, obj, payloads>>

\* Lines 300-302: label_cache is rebuilt from a new listing, then the id of
\* the label ensure_label returned is appended.
EL_Refresh ==
    /\ pc = "el_refresh"
    /\ \E r \in GetOutcomes :
          /\ Answers(project_id, r)
          /\ calls' = Append(calls, Call("GET", "labels", <<>>, r))
          /\ IF r = "ok"
               THEN /\ label_cache' = ListToDict(srvLabels)
                    /\ label_ids' = AppendId(label_ids, obj.id)
                    /\ resolutions' = Append(resolutions,
                          Resolution("labels", target, obj.id, "ensure", Len(calls')))
                    /\ li' = li + 1
                    /\ pc' = "labels"
                    /\ faults' = faults
               ELSE /\ UNCHANGED <<label_cache, label_ids, resolutions, li>>
                    /\ pc' = "raised"
                    /\ faults' = faults + 1
    /\ UNCHANGED <<args, csv, want, seed, project_id, headers, srvProjects, srvLabels,
                   srvStates, nextId, state_cache, created_count, skipped,
                   failures, i, payload, labels, target, obj, payloads>>

\* Lines 303-309, after the last label: label_ids goes into the payload; in
\* a dry or offline run the payload is printed and counted as created.
LabelsDone ==
    /\ pc = "labels"
    /\ li > Len(labels)
    /\ payload' = WithLabelIds(payload, label_ids)
    /\ IF Simulate
         THEN /\ created_count' = created_count + 1
              /\ payloads' = Append(payloads,
                    [row |-> i, payload |-> payload', mode |-> "simulated"])
              /\ i' = i + 1
              /\ pc' = AfterRow
         ELSE /\ pc' = "submit"
              /\ UNCHANGED <<created_count, payloads, i>>
    /\ UNCHANGED <<args, csv, want, seed, project_id, headers, srvProjects, srvLabels,
                   srvStates, nextId, faults, label_cache, state_cache, skipped,
                   failures, labels, li, label_ids, target, obj, calls,
                   resolutions>>

\* Submit that counts a failed create_issue as created and as failed.
Submit_DoubleCount ==
    /\ pc = "submit"
    /\ \E r \in PostOutcomes :
          /\ Answers(project_id, r)
          /\ calls' = Append(calls, Call("POST", "issues", payload, r))
          /\ IF r \in {"ok", "nonjson"}
               THEN nextId' = nextId + 1
               ELSE nextId' = nextId
          /\ IF r = "ok"
               THEN /\ created_count' = created_count + 1
                    /\ failures' = failures
                    /\ faults' = faults
               ELSE /\ created_count' = created_count + 1
                    /\ failures' = failures + 1
                    /\ faults' = faults + 1
    /\ payloads' = Append(payloads, [row |-> i, payload |-> payload, mode |-> "submitted"])
    /\ i' = i + 1
    /\ pc' = AfterRow
    /\ UNCHANGED <<args, csv, want, seed, project_id, headers, srvProjects, srvLabels,
                   srvStates, label_cache, state_cache, skipped, payload, labels,
                   li, label_ids, target, obj, resolutions>>

\* Submit without the try/except: a failed create_issue ends the run.
Submit_Uncaught ==
    /\ pc = "submit"
    /\ \E r \in PostOutcomes :
          /\ Answers(project_id, r)
          /\ calls' = Append(calls, Call("POST", "issues", payload, r))
          /\ IF r \in {"ok", "nonjson"}
               THEN nextId' = nextId + 1
               ELSE nextId' = nextId
          /\ IF r = "ok"
               THEN /\ created_count' = created_count + 1
                    /\ faults' = faults
                    /\ i' = i + 1
                    /\ pc' = AfterRow
               ELSE /\ created_count' = created_count
                    /\ faults' = faults + 1
                    /\ i' = i
                    /\ pc' = "raised"
    /\ payloads' = Append(payloads, [row |-> i, payload |-> payload, mode |-> "submitted"])
    /\ UNCHANGED <<args, csv, want, seed, project_id, headers, srvProjects, srvLabels,
                   srvStates, label_cache, state_cache, skipped, failures, payload,
                   labels, li, label_ids, target, obj, resolutions>>

\* Lines 311-319: create_issue inside try/except; then the next row.
Submit ==
    /\ pc = "submit"
    /\ \E r \in PostOutcomes :
          /\ Answers(project_id, r)
          /\ calls' = Append(calls, Call("POST", "issues", payload, r))
          /\ IF r \in {"ok", "nonjson"}
               THEN nextId' = nextId + 1
               ELSE nextId' = nextId
          /\ IF r = "ok"
               THEN /\ created_count' = created_count + 1
                    /\ failures' = failures
                    /\ faults' = faults
               ELSE /\ created_count' = created_count
                    /\ failures' = failures + 1
                    /\ faults' = faults + 1
    /\ payloads' = Append(payloads, [row |-> i, payload |-> payload, mode |-> "submitted"])
    /\ i' = i + 1
    /\ pc' = AfterRow
    /\ UNCHANGED <<args, csv, want, seed, project_id, headers, srvProjects, srvLabels,
                   srvStates, label_cache, state_cache, skipped, payload, labels,
                   li, label_ids, target, obj, resolutions>>

\* ------------------------------------------------------------------------
\* The run
\* ------------------------------------------------------------------------

Next ==
    \/ MainResolve
    \/ LoadLabels
    \/ LoadStates
    \/ Open
    \/ RowBegin
    \/ ES_List
    \/ ES_Post1
    \/ ES_Post2
    \/ ES_Refresh
    \/ LabelStep
    \/ EL_List
    \/ EL_Post
    \/ EL_Refresh
    \/ LabelsDone
    \/ Submit

Spec == Init /\ [][Next]_vars

\* ------------------------------------------------------------------------
\* resolve_project_id
\* ------------------------------------------------------------------------

HexHyphen == {"0","1","2","3","4","5","6","7","8","9","a","b","c","d","e","f","-"}

\* re.match(r"^[0-9a-f-]{8,}$", want_norm), want_norm being stripped.
IsIdShaped(want_norm) ==
    /\ Len(want_norm) >= 8
    /\ \A k \in 1..Len(want_norm) : want_norm[k] \in HexHyphen

\* pid = proj.get("id") or proj.get("project_id")
ProjPid(proj) == PyOr(DictGet(proj, "id"), DictGet(proj, "project_id"))

\* want_norm in (ident, name, slug), and pid is set
ProjMatches(proj, want_norm) ==
    /\ want_norm \in {NormKey(DictGet(proj, "identifier")),
                      NormKey(DictGet(proj, "name")),
                      NormKey(DictGet(proj, "slug"))}
    /\ Truthy(ProjPid(proj))

\* Lines 186-200, the listing being in hand: the value returned, or None
\* for the RuntimeError of line 200.
ScanProjects(results, w) ==
    LET want_norm == NormKey(w)
        hits      == {k \in DOMAIN results : ProjMatches(results[k], want_norm)}
    IN  IF IsIdShaped(want_norm) THEN w
        ELSE IF hits # {}
               THEN ProjPid(results[CHOOSE k \in hits : \A k2 \in hits : k <= k2])
               ELSE None

\* Lines 183-185: the project listing is fetched first, whatever `want` is.
RP_Get ==
    /\ pc = "rp_get"
    /\ \E r \in GetOutcomes :
          /\ calls' = Append(calls,
                [verb |-> "GET", kind |-> "projects", pid |-> None, body |-> <<>>,
                 res |-> r, row |-> i])
          /\ IF r = "ok"
               THEN /\ pc' = "rp_scan"
                    /\ faults' = faults
               ELSE /\ pc' = "rp_raised"
                    /\ faults' = faults + 1
    /\ UNCHANGED <<args, csv, want, seed, project_id, headers, srvProjects, srvLabels,
                   srvStates, nextId, label_cache, state_cache, created_count,
                   skipped, failures, i, payload, labels, li, label_ids, target,
                   obj, resolutions, payloads>>

\* Lines 186-200: the identifier shape, then the scan of the listing.
RP_Scan ==
    /\ pc = "rp_scan"
    /\ LET found == ScanProjects(srvProjects, project_id)
       IN  IF found # None
             THEN /\ obj' = found
                  /\ pc' = "rp_returned"
             ELSE /\ obj' = obj
                  /\ pc' = "rp_raised"
    /\ UNCHANGED <<args, csv, want, seed, project_id, headers, srvProjects, srvLabels,
                   srvStates, nextId, faults, label_cache, state_cache,
                   created_count, skipped, failures, i, payload, labels, li,
                   label_ids, target, calls, resolutions, payloads>>

\* Lines 222-228 after the call: the returned id is assigned, or the
\* exception is caught and project_id is used as it is.
MainResolved ==
    /\ pc \in {"rp_returned", "rp_raised"}
    /\ project_id' = IF pc = "rp_returned" THEN obj ELSE project_id
    /\ pc' = "load_labels"
    /\ UNCHANGED <<args, csv, want, seed, headers, srvProjects, srvLabels, srvStates,
                   nextId, faults, label_cache, state_cache, created_count,
                   skipped, failures, i, payload, labels, li, label_ids, target,
                   obj, calls, resolutions, payloads>>

\* Project listings for resolve_project_id called on its own.
ProjectNoId ==
    [identifier |-> <<"B","T">>, name |-> <<"O","t","h","e","r">>]

ProjectAltId ==
    [project_id |-> <<"f","e","e","d","-","0","0","0","2">>,
     name |-> <<" ","b","u","g"," ","t","r","a","c","k","e","r">>,
     slug |-> <<"b","t","2">>]

ListingPool == { <<>>, <<ProjectBT>>, <<ProjectNoId, ProjectBT>>,
                 <<ProjectAltId, ProjectBT>> }

\* Arguments for resolve_project_id called on its own.
ResolveWantPool ==
    { <<"a","b","c","1","2","3","4","5","-","d","e","6","7">>,
      <<" ","A","B","C","1","2","3","4","5","-","D","E","6","7">>,
      <<"d","e","a","d","b","e","e","f">>,
      <<"a","b","c","-","1","2","3">>,
      <<"B","u","g"," ","T","r","a","c","k","e","r">>,
      <<"b","t">>,
      <<"b","u","g","-","t","r","a","c","k","e","r"," ">>,
      <<"n","o","m","a","t","c","h">> }

\* resolve_project_id(base_url, ws_slug, headers, want) called with bound
\* headers: want is any argument, the listing any listing.
InitResolve ==
    /\ args = [dry_run |-> FALSE, offline |-> FALSE,
               no_create_labels |-> FALSE, no_create_states |-> FALSE]
    /\ csv = [fieldnames |-> Columns, rows |-> <<>>]
    /\ want \in ResolveWantPool
    /\ project_id = want
    /\ headers = "bound"
    /\ srvProjects \in ListingPool
    /\ seed = [labels |-> <<>>, states |-> <<>>, nextId |-> 1]
    /\ srvLabels = <<>>
    /\ srvStates = <<>>
    /\ nextId = 1
    /\ faults = 0
    /\ label_cache = <<>>
    /\ state_cache = <<>>
    /\ created_count = 0
    /\ skipped = 0
    /\ failures = 0
    /\ i = 0
    /\ pc = "rp_get"
    /\ payload = <<>>
    /\ labels = <<>>
    /\ li = 0
    /\ label_ids = <<>>
    /\ target = None
    /\ obj = None
    /\ calls = <<>>
    /\ resolutions = <<>>
    /\ payloads = <<>>

NextResolve ==
    \/ RP_Get
    \/ RP_Scan
    \/ MainResolved

SpecResolve == InitResolve /\ [][NextResolve]_vars

\* ------------------------------------------------------------------------
\* ensure_state and ensure_label called on their own
\* ------------------------------------------------------------------------

\* Names for ensure_state / ensure_label: the four state names of the
\* status table, names of the other groups, and unrecognized names.
EnsureNamePool ==
    { <<"B","a","c","k","l","o","g">>,
      <<"U","n","s","t","a","r","t","e","d">>,
      <<"S","t","a","r","t","e","d">>,
      <<"C","o","m","p","l","e","t","e","d">>,
      <<" ","W","o","n","'","t"," ","F","i","x">>,
      <<"c","a","n","c","e","l","e","d">>,
      <<"T","r","i","a","g","e">>,
      <<"U","R","G","E","N","T"," ">> }

InitEnsure ==
    /\ args = [dry_run |-> FALSE, offline |-> FALSE,
               no_create_labels |-> FALSE, no_create_states |-> FALSE]
    /\ csv = [fieldnames |-> Columns, rows |-> <<>>]
    /\ want = ProjectBT.id
    /\ project_id = ProjectBT.id
    /\ headers = "bound"
    /\ srvProjects = <<ProjectBT>>
    /\ seed \in SeedPool
    /\ srvLabels = seed.labels
    /\ srvStates = seed.states
    /\ nextId = seed.nextId
    /\ faults = 0
    /\ label_cache = <<>>
    /\ state_cache = <<>>
    /\ created_count = 0
    /\ skipped = 0
    /\ failures = 0
    /\ i = 0
    /\ pc \in {"es_list", "el_list"}
    /\ payload = <<>>
    /\ labels = <<>>
    /\ li = 0
    /\ label_ids = <<>>
    /\ target \in EnsureNamePool
    /\ obj = None
    /\ calls = <<>>
    /\ resolutions = <<>>
    /\ payloads = <<>>

NextEnsure ==
    \/ ES_List
    \/ ES_Post1
    \/ ES_Post2
    \/ EL_List
    \/ EL_Post

SpecEnsure == InitEnsure /\ [][NextEnsure]_vars

\* ------------------------------------------------------------------------
\* Properties: vocabulary
\* ------------------------------------------------------------------------

\* Live mode: neither --dry-run nor --offline.
Live == ~args.dry_run /\ ~args.offline

\* The POST requests of the history, in order.
PostCalls == SelectSeq(calls, LAMBDA c : c.verb = "POST")

\* Indices of the creation calls of an entity kind for a normalized name.
CreationCalls(kind, key) ==
    {c \in DOMAIN calls :
        /\ calls[c].verb = "POST"
        /\ calls[c].kind = kind
        /\ Lower(Strip(calls[c].body.name)) = key}

\* Indices of the record-creation calls.
IssueCalls == {c \in DOMAIN calls : calls[c].verb = "POST" /\ calls[c].kind = "issues"}

\* Two resolutions, the first earlier, of the same normalized name.
SameName(a, b) ==
    /\ a < b
    /\ resolutions[a].kind = resolutions[b].kind
    /\ resolutions[a].key = resolutions[b].key

\* ------------------------------------------------------------------------
\* C1
\* ------------------------------------------------------------------------

\* C1 as stated: in Live mode, resolving the same normalized name twice in
\* one run issues at most one creation call for it and yields the same
\* identifier both times, for tags and for states.
C1_AtMostOneCreationCall ==
    Live =>
      \A a, b \in DOMAIN resolutions :
        SameName(a, b) =>
          /\ resolutions[a].id = resolutions[b].id
          /\ Cardinality(CreationCalls(resolutions[a].kind, resolutions[a].key)) <= 1

\* C1 amended: in Live mode, resolving the same normalized name twice in one
\* run yields the same identifier both times; at most one creation call for
\* it returns the created entity, and none is issued after the first
\* resolution; a tag gets at most one creation call, a state at most two
\* (the first one failed, then its one retry).
C1_NoDuplicateCreation ==
    Live =>
      \A a, b \in DOMAIN resolutions :
        SameName(a, b) =>
          LET cs == CreationCalls(resolutions[a].kind, resolutions[a].key)
          IN  /\ resolutions[a].id = resolutions[b].id
              /\ Cardinality({c \in cs : calls[c].res = "ok"}) <= 1
              /\ \A c \in cs : c <= resolutions[a].at
              /\ resolutions[a].kind = "labels" => Cardinality(cs) <= 1
              /\ resolutions[a].kind = "states" => Cardinality(cs) <= 2

\* A state created for one row and found in the cache for a later row, and
\* a tag created and then found again.
C1_Witness ==
    /\ Live
    /\ \E a, b \in DOMAIN resolutions :
          /\ SameName(a, b)
          /\ resolutions[a].kind = "states"
          /\ resolutions[a].how = "ensure"
          /\ resolutions[b].how = "cache"
          /\ resolutions[a].row < resolutions[b].row
          /\ CreationCalls("states", resolutions[a].key) # {}
    /\ \E a, b \in DOMAIN resolutions :
          /\ SameName(a, b)
          /\ resolutions[a].kind = "labels"
          /\ resolutions[a].how = "ensure"
          /\ resolutions[b].how = "cache"
          /\ CreationCalls("labels", resolutions[a].key) # {}

\* ------------------------------------------------------------------------
\* C2
\* ------------------------------------------------------------------------

\* A creation call whose failure ensure_label / ensure_state raises: a
\* failed tag creation, or a failed retry of a state creation.
FinalCreationFailure(c) ==
    /\ calls[c].verb = "POST"
    /\ calls[c].res # "ok"
    /\ \/ calls[c].kind = "labels"
       \/ calls[c].kind = "states" /\ "group" \in DOMAIN calls[c].body

\* C2 as stated: when the live creation of a tag or of a state fails for a
\* row (for a state, after the retry failed too), no record-creation call is
\* issued for that row and the row is counted in Failed: Failed is the
\* number of failed record creations plus the number of such rows.
C2_CreationFailureCounted ==
    /\ \A c \in DOMAIN calls :
          FinalCreationFailure(c) =>
             \A d \in IssueCalls : calls[d].row # calls[c].row
    /\ failures = Cardinality({d \in IssueCalls : calls[d].res # "ok"})
                  + Cardinality({calls[c].row : c \in {x \in DOMAIN calls : FinalCreationFailure(x)}})

\* ------------------------------------------------------------------------
\* C3
\* ------------------------------------------------------------------------

\* The step issues a record-creation call and the call fails.
RecordCallFails ==
    /\ Len(calls') = Len(calls) + 1
    /\ calls'[Len(calls')].kind = "issues"
    /\ calls'[Len(calls')].res # "ok"

\* C3: a failed record-creation call is caught: Failed grows by one, Created
\* and Skipped stay, and the run goes on with the next row or, after the
\* last row, with the final summary; whenever an exception ends the run, the
\* request that raised it is not a record creation.
C3_RecordFailureCaught ==
    /\ [][RecordCallFails =>
            /\ failures' = failures + 1
            /\ created_count' = created_count
            /\ skipped' = skipped
            /\ i' = i + 1
            /\ pc' = IF i' > Len(csv.rows) THEN "done" ELSE "row"]_vars
    /\ [](pc = "raised" => calls[Len(calls)].kind # "issues")

\* The record of row 1 failed, row 2 was processed and created, and the run
\* reached its summary.
C3_Witness ==
    /\ pc = "done"
    /\ failures = 1
    /\ created_count = 1
    /\ \E c, d \in IssueCalls :
          /\ calls[c].row = 1 /\ calls[c].res # "ok"
          /\ calls[d].row = 2 /\ calls[d].res = "ok"

\* ------------------------------------------------------------------------
\* C4
\* ------------------------------------------------------------------------

\* The end-to-end scenario: the one row, empty caches, Live mode with
\* creation enabled, finished with no failed call.
C4_Scenario ==
    /\ csv = [fieldnames |-> Columns, rows |-> <<RowFixLogin>>]
    /\ seed.labels = <<>> /\ seed.states = <<>>
    /\ Live /\ ~args.no_create_labels /\ ~args.no_create_states
    /\ pc = "done"
    /\ faults = 0

\* The record payload of the scenario.
C4_Payload(p) ==
    /\ p.name = <<"F","i","x"," ","l","o","g","i","n">>
    /\ "priority" \in DOMAIN p /\ p.priority = <<"h","i","g","h">>
    /\ "state_id" \in DOMAIN p /\ p.state_id # NoId
    /\ "label_ids" \in DOMAIN p /\ Len(p.label_ids) = 2

\* C4 as stated: the scenario produces exactly two entity-creation calls
\* followed by one record-creation call with the payload above.
C4_TwoCreations ==
    C4_Scenario =>
      /\ Len(PostCalls) = 3
      /\ PostCalls[1].kind \in {"states", "labels"}
      /\ PostCalls[2].kind \in {"states", "labels"}
      /\ PostCalls[3].kind = "issues"
      /\ C4_Payload(PostCalls[3].body)

\* C4 amended: the scenario, when no call fails, produces exactly three
\* entity-creation calls (the state Started, then the tags auth and urgent)
\* followed by one record-creation call whose payload has name "Fix login",
\* priority "high", a non-absent state_id and two label_ids.
C4_ThreeCreations ==
    C4_Scenario =>
      /\ Len(PostCalls) = 4
      /\ PostCalls[1].kind = "states"
      /\ PostCalls[1].body.name = <<"S","t","a","r","t","e","d">>
      /\ PostCalls[2].kind = "labels"
      /\ PostCalls[2].body.name = <<"a","u","t","h">>
      /\ PostCalls[3].kind = "labels"
      /\ PostCalls[3].body.name = <<"u","r","g","e","n","t">>
      /\ PostCalls[4].kind = "issues"
      /\ C4_Payload(PostCalls[4].body)
      /\ created_count = 1

\* The scenario has run to its summary.
C4_Witness == C4_Scenario /\ created_count = 1 /\ Len(payloads) = 1

\* ------------------------------------------------------------------------
\* C5
\* ------------------------------------------------------------------------

\* The Summary cell is absent, empty, or holds whitespace only.
BlankSummary(row) ==
    LET cell == RowGet(row, "Summary")
    IN  \/ cell = None
        \/ \A k \in 1..Len(cell) : cell[k] \in {" ", "\t"}

\* C5: processing a row whose Summary is empty, absent or whitespace-only
\* adds one to Skipped and changes nothing else: Created and Failed stay, no
\* request is issued, both caches and the server stay, and no payload is
\* built, submitted or printed.
C5_SkipFrame ==
    [][(pc = "row" /\ BlankSummary(csv.rows[i])) =>
          /\ skipped' = skipped + 1
          /\ UNCHANGED <<created_count, failures, calls, label_cache, state_cache,
                         srvLabels, srvStates, nextId, payload, payloads,
                         resolutions>>]_vars

\* A Live run over two rows without Summary has skipped both, having issued
\* the two cache loads only.
C5_Witness ==
    /\ Live
    /\ pc = "done"
    /\ Len(csv.rows) = 2
    /\ skipped = 2
    /\ \E k \in 1..2 : Strip(csv.rows[k].Summary) = <<>> /\ csv.rows[k].Summary # <<>>
    /\ Len(calls) = 2

\* ------------------------------------------------------------------------
\* C6
\* ------------------------------------------------------------------------

\* C6 as stated: resolve_project_id called with an input of identifier
\* shape (at least 8 characters, all hexadecimal digits or hyphens) returns
\* the input verbatim and issues no project-listing call.
C6_NoListingForIdentifier ==
    IsIdShaped(Lower(Strip(want))) =>
      /\ \A c \in DOMAIN calls : calls[c].kind # "projects"
      /\ pc # "rp_raised"
      /\ pc = "rp_returned" => obj = want

\* ------------------------------------------------------------------------
\* C7
\* ------------------------------------------------------------------------

\* The projects of the listing that the configured reference names by short
\* code, display name or slug.
NamedProjects ==
    {k \in DOMAIN srvProjects :
        Lower(Strip(want)) \in {Lower(Strip(srvProjects[k].identifier)),
                                Lower(Strip(srvProjects[k].name)),
                                Lower(Strip(srvProjects[k].slug))}}

\* C7 as stated: when the configured project reference is not of identifier
\* shape and names a project of the listing, the project is resolved to
\* that project's id, and the cache loads and every later request of the
\* run are addressed to that id.
C7_RequestsUseResolvedId ==
    (~IsIdShaped(Lower(Strip(want))) /\ NamedProjects # {} /\ pc # "start") =>
      \E k \in NamedProjects :
        /\ project_id = srvProjects[k].id
        /\ \A c \in DOMAIN calls :
              calls[c].kind \in {"labels", "states", "issues"} =>
                 calls[c].pid = srvProjects[k].id

\* ------------------------------------------------------------------------
\* C8
\* ------------------------------------------------------------------------

\* The entities of `kind` the project held before the run.
SeedOf(kind) == IF kind = "labels" THEN seed.labels ELSE seed.states

\* The ids of the seeded entities of `kind` named by the normalized key.
SeedIds(kind, key) ==
    {SeedOf(kind)[k].id : k \in {x \in DOMAIN SeedOf(kind) :
                                   Lower(Strip(SeedOf(kind)[x].name)) = key}}

\* All ids of the seeded entities of `kind`.
AllSeedIds(kind) == {SeedOf(kind)[k].id : k \in DOMAIN SeedOf(kind)}

\* C8: in a dry or offline run no POST is ever issued (no tag, state or
\* record creation) and the server keeps what it held; a name missing from
\* the cache resolves to an absent identifier, a name in the cache to its
\* listed identifier; every payload is only printed, and its state_id and
\* label_ids are identifiers the initial listings held; once loaded, the
\* caches never change.
C8_SimulateMutatesNothing ==
    /\ []((args.dry_run \/ args.offline) =>
            /\ \A c \in DOMAIN calls : calls[c].verb # "POST"
            /\ srvLabels = seed.labels /\ srvStates = seed.states
            /\ \A r \in DOMAIN resolutions :
                  LET ids == SeedIds(resolutions[r].kind, resolutions[r].key)
                  IN  IF ids = {}
                        THEN /\ resolutions[r].id = NoId
                             /\ resolutions[r].how \in {"placeholder", "disabled"}
                        ELSE /\ resolutions[r].id \in ids
                             /\ resolutions[r].how = "cache"
            /\ \A p \in DOMAIN payloads :
                  /\ payloads[p].mode = "simulated"
                  /\ "state_id" \in DOMAIN payloads[p].payload =>
                        payloads[p].payload.state_id \in AllSeedIds("states")
                  /\ "label_ids" \in DOMAIN payloads[p].payload =>
                        \A k \in DOMAIN payloads[p].payload.label_ids :
                           payloads[p].payload.label_ids[k] \in AllSeedIds("labels"))
    /\ [][((args.dry_run \/ args.offline)
             /\ pc \notin {"start", "load_labels", "load_states"}) =>
            UNCHANGED <<label_cache, state_cache>>]_vars

\* An offline run has printed two payloads, one name having been found in
\* the cache and another replaced by a placeholder.
C8_Witness ==
    /\ args.offline /\ ~args.dry_run
    /\ pc = "done"
    /\ Len(payloads) = 2
    /\ \E r \in DOMAIN resolutions : resolutions[r].how = "placeholder"
    /\ \E r \in DOMAIN resolutions : resolutions[r].how = "cache"
    /\ \E p \in DOMAIN payloads : "label_ids" \in DOMAIN payloads[p].payload

\* ------------------------------------------------------------------------
\* C9
\* ------------------------------------------------------------------------

\* C9 as stated: with --offline the run issues no request to Plane at all:
\* no project listing, no tag or state listing, no creation.
C9_OfflineIssuesNoRequest == args.offline => calls = <<>>

\* ------------------------------------------------------------------------
\* C10
\* ------------------------------------------------------------------------

\* The state group expected for each name of EnsureNamePool.
ExpectedGroup ==
    ( <<"B","a","c","k","l","o","g">>             :> "backlog" ) @@
    ( <<"U","n","s","t","a","r","t","e","d">>     :> "backlog" ) @@
    ( <<"S","t","a","r","t","e","d">>             :> "started" ) @@
    ( <<"C","o","m","p","l","e","t","e","d">>     :> "completed" ) @@
    ( <<" ","W","o","n","'","t"," ","F","i","x">> :> "cancelled" ) @@
    ( <<"c","a","n","c","e","l","e","d">>         :> "cancelled" ) @@
    ( <<"T","r","i","a","g","e">>                 :> "backlog" ) @@
    ( <<"U","R","G","E","N","T"," ">>             :> "backlog" )

\* Indices of the creation calls of a kind, whatever the name.
KindPosts(kind) ==
    {c \in DOMAIN calls : calls[c].verb = "POST" /\ calls[c].kind = kind}

\* C10: one ensure_state issues at most two creation calls: the first with
\* the name and the colour #9ca3af only; the second only right after a
\* failed first one, with the same name and colour plus the group inferred
\* from the name (backlog, started, completed or cancelled; backlog for an
\* unrecognized name); a failed first call is always followed by the retry,
\* a failed retry is raised to the caller; one ensure_label issues at most
\* one creation call, and its failure is raised to the caller.
C10_StateRetriedOnce ==
    LET sp == KindPosts("states")
        lp == KindPosts("labels")
    IN  /\ Cardinality(sp) <= 2
        /\ Cardinality(lp) <= 1
        /\ \A c \in sp :
              IF \A d \in sp : c <= d
                THEN /\ calls[c].body = [name |-> target,
                                         color |-> <<"#","9","c","a","3","a","f">>]
                     /\ calls[c].res = "ok" => pc = "es_refresh" /\ sp = {c}
                     /\ calls[c].res # "ok" => pc = "es_post2" \/ c + 1 \in sp
                ELSE /\ c - 1 \in sp
                     /\ calls[c - 1].res # "ok"
                     /\ calls[c].body = [name |-> target,
                                         color |-> <<"#","9","c","a","3","a","f">>,
                                         group |-> ExpectedGroup[target]]
                     /\ calls[c].body.group \in {"backlog", "started", "completed", "cancelled"}
                     /\ calls[c].res = "ok" => pc = "es_refresh"
                     /\ calls[c].res # "ok" => pc = "raised"
        /\ \A c \in lp :
              /\ calls[c].body = [name |-> target]
              /\ calls[c].res = "ok" => pc = "el_refresh"
              /\ calls[c].res # "ok" => pc = "raised"

\* A state creation failed and its retry, with the group cancelled,
\* returned the state.
C10_Witness ==
    /\ pc = "es_refresh"
    /\ Cardinality(KindPosts("states")) = 2
    /\ \E c \in KindPosts("states") :
          /\ calls[c].res = "ok"
          /\ calls[c].body.group = "cancelled"
          /\ obj.name = target

\* ------------------------------------------------------------------------
\* C11
\* ------------------------------------------------------------------------

\* The entities of `kind` the server holds.
SrvOf(kind) == IF kind = "labels" THEN srvLabels ELSE srvStates

\* The ids of the server's entities of `kind` named by the normalized key.
SrvIds(kind, key) ==
    {SrvOf(kind)[k].id : k \in {x \in DOMAIN SrvOf(kind) :
                                  Lower(Strip(SrvOf(kind)[x].name)) = key}}

\* Indices of the tag and state creation calls that returned the entity.
CreatedCalls ==
    {c \in DOMAIN calls :
        /\ calls[c].verb = "POST"
        /\ calls[c].kind \in {"labels", "states"}
        /\ calls[c].res = "ok"}

\* C11: the step after a successful tag or state creation is a listing call
\* of that kind; when it succeeds the cache of that kind becomes the whole
\* listing (every listed name is a key, every value a listed entity of that
\* name), which holds the created name; when it fails the run ends. So no
\* cache lookup lies between the creation and the rebuild, and every later
\* lookup of the name in the run hits the cache and carries an identifier
\* the server lists for it.
C11_CacheRebuiltAfterCreation ==
    /\ [][(Len(calls) \in CreatedCalls /\ vars' # vars) =>
            LET kind   == calls[Len(calls)].kind
                key    == Lower(Strip(calls[Len(calls)].body.name))
                cache  == IF kind = "labels" THEN label_cache' ELSE state_cache'
                listed == IF kind = "labels" THEN srvLabels' ELSE srvStates'
            IN  /\ Len(calls') = Len(calls) + 1
                /\ calls'[Len(calls')].verb = "GET"
                /\ calls'[Len(calls')].kind = kind
                /\ calls'[Len(calls')].res # "ok" => pc' = "raised"
                /\ calls'[Len(calls')].res = "ok" =>
                      /\ DOMAIN cache = {Lower(Strip(listed[k].name)) : k \in DOMAIN listed}
                      /\ \A k \in DOMAIN cache :
                            \E x \in DOMAIN listed :
                               listed[x] = cache[k] /\ Lower(Strip(listed[x].name)) = k
                      /\ key \in DOMAIN cache]_vars
    /\ [](\A c \in CreatedCalls :
            \A r \in DOMAIN resolutions :
               ( /\ resolutions[r].kind = calls[c].kind
                 /\ resolutions[r].key = Lower(Strip(calls[c].body.name))
                 /\ resolutions[r].at >= c + 1
                 /\ ~(resolutions[r].how = "ensure" /\ resolutions[r].at = c + 1) ) =>
                    /\ resolutions[r].how = "cache"
                    /\ resolutions[r].id # NoId
                    /\ resolutions[r].id \in SrvIds(calls[c].kind, resolutions[r].key))

\* A tag was created, the cache rebuilt by the next call, and a later
\* lookup of the tag hit the cache.
C11_Witness ==
    \E c \in CreatedCalls :
       \E r \in DOMAIN resolutions :
          /\ calls[c].kind = "labels"
          /\ resolutions[r].kind = "labels"
          /\ resolutions[r].key = Lower(Strip(calls[c].body.name))
          /\ resolutions[r].at = c + 1
          /\ resolutions[r].how = "cache"
          /\ calls[c + 1].verb = "GET"

\* ------------------------------------------------------------------------
\* C12
\* ------------------------------------------------------------------------

\* The status cell of a row, and whether the state name it maps to is
\* missing from the state cache.
RowStatus(row) == PyOr(PyOr(RowGet(row, "Status"), RowGet(row, "status")), <<>>)

StateMissing(row) ==
    /\ Truthy(map_state(RowStatus(row)))
    /\ Lower(Strip(map_state(RowStatus(row)))) \notin DOMAIN state_cache

\* C12: with --no-create-states no state listing and no state creation is
\* issued for any row (the only state request is the initial load), and the
\* payload of a row whose mapped state name is missing from the state cache
\* has no state_id key, while it is built and when it is submitted or
\* printed, in Live and in Simulate mode.
C12_NoCreateStatesOmitsStateId ==
    args.no_create_states =>
      /\ \A c \in DOMAIN calls : calls[c].kind = "states" => calls[c].row = 0
      /\ \A p \in DOMAIN payloads :
            StateMissing(csv.rows[payloads[p].row]) =>
               "state_id" \notin DOMAIN payloads[p].payload
      /\ (pc \in {"labels", "submit"} /\ StateMissing(csv.rows[i])) =>
            "state_id" \notin DOMAIN payload

\* In a Live run with --no-create-states the record of a row whose mapped
\* state is missing from the cache was created, with tags and no state_id.
C12_Witness ==
    /\ args.no_create_states
    /\ Live
    /\ \E p \in DOMAIN payloads :
          /\ StateMissing(csv.rows[payloads[p].row])
          /\ payloads[p].mode = "submitted"
          /\ "label_ids" \in DOMAIN payloads[p].payload
          /\ \E c \in IssueCalls : calls[c].row = payloads[p].row /\ calls[c].res = "ok"

\* ------------------------------------------------------------------------
\* C13
\* ------------------------------------------------------------------------

\* The tag resolutions of row k, in the order of the Labels cell.
TagResolutions(k) ==
    SelectSeq(resolutions, LAMBDA r : r.kind = "labels" /\ r.row = k)

\* The identifiers of the tags of row k that resolved, in that order.
ResolvedTagIds(k) ==
    LET rs == SelectSeq(TagResolutions(k), LAMBDA r : r.id # NoId)
    IN  [x \in 1..Len(rs) |-> rs[x].id]

\* C13: a tag without identifier arises only with tag creation disabled or
\* in Simulate mode; it never ends the run in its row, and once the row is
\* over its payload has been submitted or printed and counted in Created or
\* Failed; the label_ids of every payload are the identifiers of the row's
\* tags that resolved, in order, and the key is absent when none resolved.
C13_UnresolvedTagsDropped ==
    /\ \A r \in DOMAIN resolutions :
          (resolutions[r].kind = "labels" /\ resolutions[r].id = NoId) =>
             /\ args.no_create_labels \/ args.dry_run \/ args.offline
             /\ pc = "raised" => i # resolutions[r].row
             /\ i > resolutions[r].row =>
                   \E p \in DOMAIN payloads : payloads[p].row = resolutions[r].row
    /\ created_count + failures = Len(payloads)
    /\ \A p \in DOMAIN payloads :
          IF ResolvedTagIds(payloads[p].row) = <<>>
            THEN "label_ids" \notin DOMAIN payloads[p].payload
            ELSE /\ "label_ids" \in DOMAIN payloads[p].payload
                 /\ payloads[p].payload.label_ids = ResolvedTagIds(payloads[p].row)

\* A Live run with --no-create-labels has submitted one record with the one
\* of its two tags that resolved, and one record whose tags all failed to
\* resolve, without label_ids.
C13_Witness ==
    /\ Live
    /\ args.no_create_labels
    /\ pc = "done"
    /\ \E p \in DOMAIN payloads :
          /\ Len(TagResolutions(payloads[p].row)) = 2
          /\ Len(ResolvedTagIds(payloads[p].row)) = 1
          /\ payloads[p].mode = "submitted"
    /\ \E p \in DOMAIN payloads :
          /\ Len(TagResolutions(payloads[p].row)) = 2
          /\ "label_ids" \notin DOMAIN payloads[p].payload
          /\ payloads[p].mode = "submitted"

\* ------------------------------------------------------------------------
\* C14
\* ------------------------------------------------------------------------

\* C14: when the header lacks the Summary column the run ends at the header
\* check: no row is ever processed, no tag, state or record creation is
\* issued, the three counters stay 0, nothing is resolved or printed, and
\* the final summary is never reached.
C14_MissingSummaryColumnAborts ==
    "Summary" \notin csv.fieldnames =>
      /\ pc \in {"start", "load_labels", "load_states", "open", "exit", "raised"}
      /\ i = 0
      /\ \A c \in DOMAIN calls : calls[c].verb = "GET" /\ calls[c].row = 0
      /\ created_count = 0 /\ skipped = 0 /\ failures = 0
      /\ resolutions = <<>>
      /\ payloads = <<>>

\* A Live run over a two-row file without the Summary column has ended at
\* the header check, after the two cache loads.
C14_Witness ==
    /\ "Summary" \notin csv.fieldnames
    /\ Live
    /\ Len(csv.rows) = 2
    /\ pc = "exit"
    /\ Len(calls) = 2

\* ------------------------------------------------------------------------
\* C15
\* ------------------------------------------------------------------------

\* The priority labels and the status labels of the two mapping tables.
PriorityLabels ==
    { <<"H","i","g","h","e","s","t">>, <<"H","i","g","h">>,
      <<"M","e","d","i","u","m">>, <<"L","o","w">>, <<"L","o","w","e","s","t">> }

StatusLabels ==
    { <<"T","o"," ","D","o">>,
      <<"S","e","l","e","c","t","e","d"," ","f","o","r"," ",
        "D","e","v","e","l","o","p","m","e","n","t">>,
      <<"I","n"," ","P","r","o","g","r","e","s","s">>,
      <<"I","n"," ","R","e","v","i","e","w">>,
      <<"D","o","n","e">>, <<"C","l","o","s","e","d">> }

\* The priority cell of a row.
RowPriority(row) == PyOr(PyOr(RowGet(row, "Priority"), RowGet(row, "priority")), <<>>)

\* C15: every payload submitted or printed has a name that is not empty
\* after trimming and no key besides name, description, priority, state_id
\* and label_ids; a key that is present has a value that is neither None
\* nor empty; priority is present only if the trimmed priority cell is a
\* label of the priority table; state_id is present only if the trimmed
\* status cell is a label of the status table and the state resolved for
\* the row has that, non-absent, identifier.
C15_PayloadWellFormed ==
    \A p \in DOMAIN payloads :
       LET pl  == payloads[p].payload
           row == csv.rows[payloads[p].row]
       IN  /\ "name" \in DOMAIN pl
           /\ pl.name # None /\ Strip(pl.name) # <<>>
           /\ DOMAIN pl \subseteq {"name", "description", "priority", "state_id", "label_ids"}
           /\ "description" \in DOMAIN pl =>
                 pl.description # None /\ pl.description # <<>>
           /\ "priority" \in DOMAIN pl =>
                 /\ pl.priority # None /\ pl.priority # <<>>
                 /\ Strip(RowPriority(row)) \in PriorityLabels
           /\ "state_id" \in DOMAIN pl =>
                 /\ pl.state_id # NoId
                 /\ Strip(RowStatus(row)) \in StatusLabels
                 /\ \E r \in DOMAIN resolutions :
                       /\ resolutions[r].kind = "states"
                       /\ resolutions[r].row = payloads[p].row
                       /\ resolutions[r].id = pl.state_id
           /\ "label_ids" \in DOMAIN pl =>
                 /\ pl.label_ids # <<>>
                 /\ \A k \in DOMAIN pl.label_ids : pl.label_ids[k] # NoId

\* A submitted payload with description, state_id and label_ids, and
\* without priority, its row having a priority outside the table.
C15_Witness ==
    \E p \in DOMAIN payloads :
       /\ payloads[p].mode = "submitted"
       /\ DOMAIN payloads[p].payload = {"name", "description", "state_id", "label_ids"}
       /\ RowPriority(csv.rows[payloads[p].row]) # <<>>

\* ------------------------------------------------------------------------
\* C16
\* ------------------------------------------------------------------------

\* The state name the row at i maps to.
MappedState == map_state(RowStatus(csv.rows[i]))

\* The step that begins a row whose mapped state is in state_cache under
\* its trimmed, lower-cased name.
StateCacheHit ==
    /\ pc = "row"
    /\ ~BlankSummary(csv.rows[i])
    /\ Truthy(MappedState)
    /\ Lower(Strip(MappedState)) \in DOMAIN state_cache

\* The step of the label loop for a tag that is in label_cache under its
\* trimmed, lower-cased name.
LabelCacheHit ==
    /\ pc = "labels"
    /\ li <= Len(labels)
    /\ Lower(Strip(labels[li])) \in DOMAIN label_cache

\* C16: when the trimmed, lower-cased name of the mapped state or of a tag
\* is a key of the corresponding cache, the step that resolves it records
\* no request, changes neither cache nor the server, and uses the cached
\* entity's identifier, whatever the case and the surrounding whitespace of
\* the name.
C16_CacheHitIsLocal ==
    [][ /\ (StateCacheHit \/ LabelCacheHit) =>
              /\ calls' = calls
              /\ state_cache' = state_cache /\ label_cache' = label_cache
              /\ srvStates' = srvStates /\ srvLabels' = srvLabels
              /\ pc' = "labels"
        /\ StateCacheHit =>
              payload'.state_id = state_cache[Lower(Strip(MappedState))].id
        /\ LabelCacheHit =>
              label_ids' = Append(label_ids, label_cache[Lower(Strip(labels[li]))].id)
      ]_vars

\* A run in which "Started", mapped from the status of RowFixLogin, was
\* resolved from the cache entry of the listed state "started", and the tag
\* "URGENT" of RowTriage from that of the listed label "Urgent".
C16_Witness ==
    /\ \E r \in DOMAIN resolutions :
          /\ resolutions[r].kind = "states" /\ resolutions[r].how = "cache"
          /\ csv.rows[resolutions[r].row] = RowFixLogin
          /\ map_state(RowStatus(RowFixLogin)) = <<"S","t","a","r","t","e","d">>
          /\ resolutions[r].id = 2
    /\ \E r \in DOMAIN resolutions :
          /\ resolutions[r].kind = "labels" /\ resolutions[r].how = "cache"
          /\ csv.rows[resolutions[r].row] = RowTriage
          /\ resolutions[r].key = <<"u","r","g","e","n","t">>
          /\ resolutions[r].id = 1

\* ------------------------------------------------------------------------
\* C17
\* ------------------------------------------------------------------------

\* Created + Skipped + Failed.
Counted == created_count + skipped + failures

\* The record-creation calls that succeeded.
IssuesCreated == {c \in IssueCalls : calls[c].res = "ok"}

\* C17: no step decreases a counter; a step that finishes a row adds one to
\* exactly one counter and no other step changes a counter; at the final
\* summary the three counters add up to the number of rows, and in a live
\* run Created is the number of record-creation calls that succeeded.
C17_CountersTallyRows ==
    /\ [][ /\ created_count' >= created_count
           /\ skipped' >= skipped
           /\ failures' >= failures
           /\ IF pc \in {"row", "labels", "submit"} /\ i' = i + 1
                THEN Counted' = Counted + 1
                ELSE Counted' = Counted
       ]_vars
    /\ [](pc = "done" => Counted = Len(csv.rows))
    /\ [](Live => created_count = Cardinality(IssuesCreated))

\* The final summary of a live run of two rows: one created, one failed.
C17_Witness ==
    /\ pc = "done"
    /\ Live
    /\ Len(csv.rows) = 2
    /\ created_count = 1 /\ failures = 1 /\ skipped = 0
    /\ Cardinality(IssuesCreated) = 1

\* ------------------------------------------------------------------------
\* C18
\* ------------------------------------------------------------------------

\* The kind of entity the ensure under way is about.
EnsureKind == IF calls # <<>> THEN calls[1].kind
              ELSE IF pc = "es_list" THEN "states" ELSE "labels"

\* The entities of a kind the server listed when the ensure began.
Listed(kind) == IF kind = "states" THEN seed.states ELSE seed.labels

\* Positions in that listing of the entities named as the ensured name,
\* up to case and surrounding whitespace.
ListedAs(kind, name) ==
    {k \in DOMAIN Listed(kind) : Lower(Strip(Listed(kind)[k].name)) = Lower(Strip(name))}

\* C18: in one ensure of a state or a tag, a creation call comes only after
\* a successful listing call of that kind, with only a failed first
\* creation call of a state in between, and only for a name the listing
\* did not contain; when the listing contains the name, there is no
\* creation call and the entity returned is the listed one.
C18_CreationOnlyAfterFreshListing ==
    /\ \A c \in DOMAIN calls :
          calls[c].verb = "POST" =>
             /\ calls[c].kind = EnsureKind
             /\ calls[1].verb = "GET" /\ calls[1].res = "ok"
             /\ \/ c = 2
                \/ /\ c = 3 /\ calls[c].kind = "states"
                   /\ calls[2].verb = "POST" /\ calls[2].res # "ok"
             /\ ListedAs(EnsureKind, calls[c].body.name) = {}
    /\ (calls # <<>> /\ calls[1].res = "ok" /\ ListedAs(EnsureKind, target) # {}) =>
          /\ Len(calls) = 1
          /\ pc \in {"es_refresh", "el_refresh"}
          /\ \E k \in ListedAs(EnsureKind, target) : obj = Listed(EnsureKind)[k]

\* The ensure of a state the listing of a non-empty project lacks: the
\* creation call follows the listing call.
C18_Witness ==
    /\ Len(calls) = 2
    /\ calls[1].verb = "GET" /\ calls[1].kind = "states" /\ calls[1].res = "ok"
    /\ calls[2].verb = "POST" /\ calls[2].kind = "states"
    /\ seed.states # <<>>
    /\ ListedAs("states", target) = {}

\* ------------------------------------------------------------------------
\* C19
\* ------------------------------------------------------------------------

\* The states created on the server since the ensure began.
StatesCreated == Len(srvStates) - Len(seed.states)

\* C19: one ensure of a state makes the server create at most one state,
\* and the creation call with the group is issued only after a first
\* creation call that created nothing on the server, which excludes a
\* first call answered with a success status and a body that is not JSON.
C19_RetryOnlyIfNothingCreated ==
    /\ StatesCreated <= 1
    /\ \A c \in DOMAIN calls :
          (calls[c].verb = "POST" /\ calls[c].kind = "states"
             /\ "group" \in DOMAIN calls[c].body) =>
                /\ c > 1
                /\ calls[c - 1].verb = "POST"
                /\ calls[c - 1].res = "err"

\* ------------------------------------------------------------------------
\* C20
\* ------------------------------------------------------------------------

\* C20: the label_ids of a payload, submitted or printed, holds no
\* identifier twice.
C20_LabelIdsDistinct ==
    \A p \in DOMAIN payloads :
       "label_ids" \in DOMAIN payloads[p].payload =>
          \A a, b \in DOMAIN payloads[p].payload.label_ids :
             a # b => payloads[p].payload.label_ids[a] # payloads[p].payload.label_ids[b]

====
